---- MODULE Spec2Model ----
(***************************************************************************)
(* Model of the Space-APPS ingestion pipeline (ingest_epmc.py and          *)
(* rebuild_index.py): identifier resolution, the fetch cascade with        *)
(* retries, the chunk splitter and the embedding/index pass.               *)
(*                                                                         *)
(* A text is a sequence of one-character strings.                          *)
(***************************************************************************)
EXTENDS Integers, Sequences, FiniteSets, TLC

VARIABLES
    \* split_text_to_chunks(text, chunk_size, overlap)
    s_pc,        \* "call" | "loop" | "returned"
    s_orig,      \* the caller's text (argument, never modified)
    s_size,      \* chunk_size
    s_overlap,   \* overlap
    s_text,      \* local `text` (rebound by text.replace)
    s_start,     \* local `start`
    s_chunks,    \* local `chunks`
    \* find_pmcid_in_row(row)
    r_pc,        \* "call" | "returned"
    r_row,       \* the row: a sequence of fields [name, na, s], in column order
    r_result,    \* the returned value
    \* ingest_all(df) and the process_row it calls per row
    i_pc,        \* "next_row" | "download" | "fetched" | "save" | "returned" | "raised"
    i_table,     \* df: the sequence of rows
    i_idx,       \* number of rows taken from df.iterrows() so far
    i_clock,     \* int(time.time()*1000) as last read
    i_rec,       \* process_row's rec (None when process_row returned None)
    i_kind,      \* source being downloaded: "xml" | "html" | "pdf"
    i_attempt,   \* download_text / download_binary: `attempt`
    i_sleeps,    \* back-off delays (ms) slept by the current download call
    i_reqs,      \* requests issued for the current row: [kind, ok]
    i_dlres,     \* value returned by the download call
    i_records,   \* ingest_all's `records`
    i_pubs,      \* data/publications: id -> persisted record
    i_raw,       \* data/raw_html and data/raw_pdfs: <<id, ext>> -> payload
    \* the indexing pass: build_chunks_and_embeddings + build_faiss, called
    \* from ingest main or rebuild main
    x_pc,        \* "idle" | "embed" | "save_emb" | "save_meta" | "write_index" |
                 \* "write_info" | "done" | "nothing" | "no_records" | "aborted"
    x_entry,     \* "ingest" | "rebuild": the main that runs the pass
    x_pass,      \* number of passes started
    x_pubs,      \* data/publications: id -> persisted record
    x_records,   \* `records`
    x_texts,     \* `texts`
    x_meta,      \* `meta`
    x_i,         \* `i` of the batch loop
    x_emb_list,  \* `emb_list`
    x_encodes,   \* calls of model.encode made by the pass
    f_emb,       \* data/embeddings.npy
    f_meta,      \* data/chunks_meta.json
    f_faiss,     \* data/faiss_index.idx
    f_info       \* data/index_info.json

splitVars == <<s_pc, s_orig, s_size, s_overlap, s_text, s_start, s_chunks>>

resolveVars == <<r_pc, r_row, r_result>>
ingestVars == <<i_pc, i_table, i_idx, i_clock, i_rec, i_kind, i_attempt, i_sleeps,
                i_reqs, i_dlres, i_records, i_pubs, i_raw>>

indexVars == <<x_pc, x_entry, x_pass, x_pubs, x_records, x_texts, x_meta, x_i,
               x_emb_list, x_encodes, f_emb, f_meta, f_faiss, f_info>>

vars == <<splitVars, resolveVars, ingestVars, indexVars>>

\* the variables a component leaves alone
nonSplitVars == <<resolveVars, ingestVars, indexVars>>
nonResolveVars == <<splitVars, ingestVars, indexVars>>
nonIngestVars == <<splitVars, resolveVars, indexVars>>
nonIndexVars == <<splitVars, resolveVars, ingestVars>>

\* ------------------------------------------------------------------------
\* Bounds of the model
\* ------------------------------------------------------------------------
MaxTextLen == 5
MaxChunkSize == 3
MaxCols == 3
MaxRows == 2
MaxClock == 2
MaxPasses == 2
LongLen == 1300
ManySections == 65

\* ------------------------------------------------------------------------
\* Generic helpers (Python built-ins)
\* ------------------------------------------------------------------------
Min(a, b) == IF a < b THEN a ELSE b

\* text[a:b] for 0 <= a, Python slice semantics (b clamped to len(text))
Slice(text, a, b) == SubSeq(text, a + 1, Min(b, Len(text)))

\* all texts over alphabet A of length at most n
TextsUpTo(A, n) == UNION {[1..k -> A] : k \in 0..n}

\* Python's None and a returned string
None == [none |-> TRUE]
Some(t) == [none |-> FALSE, val |-> t]

UpperLetters == <<"A", "B", "C", "D", "E", "F", "G", "H", "I", "J", "K", "L", "M", "N", "O", "P", "Q", "R", "S", "T", "U", "V", "W", "X", "Y", "Z">>
LowerLetters == <<"a", "b", "c", "d", "e", "f", "g", "h", "i", "j", "k", "l", "m", "n", "o", "p", "q", "r", "s", "t", "u", "v", "w", "x", "y", "z">>

\* str.lower(), one character
LowerChar(c) ==
    IF \E i \in 1..26 : UpperLetters[i] = c
    THEN LowerLetters[CHOOSE i \in 1..26 : UpperLetters[i] = c]
    ELSE c

\* str.lower()
LowerStr(t) == [i \in 1..Len(t) |-> LowerChar(t[i])]

Digits == {"0", "1", "2", "3", "4", "5", "6", "7", "8", "9"}
Whitespace == {" ", "\t", "\n", "\r"}

\* str.strip(chars): drop the characters of C from both ends
StripChars(t, C) ==
    IF \A i \in 1..Len(t) : t[i] \in C THEN <<>>
    ELSE SubSeq(t,
            CHOOSE i \in 1..Len(t) : t[i] \notin C /\ \A j \in 1..(i - 1) : t[j] \in C,
            CHOOSE i \in 1..Len(t) : t[i] \notin C /\ \A j \in (i + 1)..Len(t) : t[j] \in C)

\* str.strip()
Strip(t) == StripChars(t, Whitespace)

\* `sub in t`
Contains(t, sub) ==
    \E i \in 0..(Len(t) - Len(sub)) : SubSeq(t, i + 1, i + Len(sub)) = sub

\* t.split("/")[-1]
LastSegment(t) ==
    LET slashes == {i \in 1..Len(t) : t[i] = "/"}
    IN  IF slashes = {} THEN t
        ELSE SubSeq(t, (CHOOSE i \in slashes : \A j \in slashes : i >= j) + 1, Len(t))

\* ------------------------------------------------------------------------
\* split_text_to_chunks
\* ------------------------------------------------------------------------
\* text.replace('\r','\n')
ReplaceCR(text) == [i \in 1..Len(text) |-> IF text[i] = "\r" THEN "\n" ELSE text[i]]

\* {"text": text[start:end], "start": start, "end": min(end, length)}
MakeChunk(text, start, end, length) ==
    [text |-> Slice(text, start, end), start |-> start, end |-> Min(end, length)]

NextStartNoOverlap(end, overlap) == end

\* start = end - overlap; if start < 0: start = 0
NextStart(end, overlap) ==
    LET st == end - overlap IN IF st < 0 THEN 0 ELSE st

RECURSIVE SplitLoop(_, _, _, _, _, _)
SplitLoop(text, length, chunk_size, overlap, start, chunks) ==
    IF start < length
    THEN LET end == start + chunk_size
             chunks2 == Append(chunks, MakeChunk(text, start, end, length))
             start2 == NextStart(end, overlap)
         IN  IF start2 >= length THEN chunks2
             ELSE SplitLoop(text, length, chunk_size, overlap, start2, chunks2)
    ELSE chunks

split_text_to_chunks(text, chunk_size, overlap) ==
    IF text = <<>> THEN <<>>
    ELSE LET t == ReplaceCR(text)
         IN  SplitLoop(t, Len(t), chunk_size, overlap, 0, <<>>)

\* --- the same function, one loop iteration per step ---
SplitAlphabet == {"a", "\r"}

\* the splitter when no call is in progress
SplitIdle ==
    /\ s_pc = "idle"
    /\ s_orig = <<>>
    /\ s_size = 1
    /\ s_overlap = 0
    /\ s_text = <<>>
    /\ s_start = 0
    /\ s_chunks = <<>>

SplitCalled ==
    /\ s_pc = "call"
    /\ s_orig \in TextsUpTo(SplitAlphabet, MaxTextLen)
    /\ s_size \in 1..MaxChunkSize
    /\ s_overlap \in 0..(s_size - 1)
    /\ s_text = s_orig
    /\ s_start = 0
    /\ s_chunks = <<>>

\* `if not text: return []`
SplitEmpty ==
    /\ s_pc = "call"
    /\ s_text = <<>>
    /\ s_pc' = "returned"
    /\ UNCHANGED <<s_orig, s_size, s_overlap, s_text, s_start, s_chunks, nonSplitVars>>

\* text = text.replace(...); length = len(text); chunks = []; start = 0
SplitEnter ==
    /\ s_pc = "call"
    /\ s_text # <<>>
    /\ s_text' = ReplaceCR(s_text)
    /\ s_start' = 0
    /\ s_chunks' = <<>>
    /\ s_pc' = "loop"
    /\ UNCHANGED <<s_orig, s_size, s_overlap, nonSplitVars>>

\* one iteration of `while start < length`
SplitIter ==
    /\ s_pc = "loop"
    /\ s_start < Len(s_text)
    /\ LET end == s_start + s_size
           start2 == NextStart(end, s_overlap)
       IN  /\ s_chunks' = Append(s_chunks, MakeChunk(s_text, s_start, end, Len(s_text)))
           /\ s_start' = start2
           /\ s_pc' = IF start2 >= Len(s_text) THEN "returned" ELSE "loop"
    /\ UNCHANGED <<s_orig, s_size, s_overlap, s_text, nonSplitVars>>

\* ------------------------------------------------------------------------
\* find_pmcid_in_row
\* ------------------------------------------------------------------------
PmcAliases == {<<"p", "m", "c", "i", "d">>, <<"p", "m", "c", " ", "i", "d">>, <<"p", "m", "c", "_", "i", "d">>, <<"p", "m", "c">>}
HttpStr == <<"h", "t", "t", "p">>
PmcArticlesStr == <<"n", "c", "b", "i", ".", "n", "l", "m", ".", "n", "i", "h", ".", "g", "o", "v", "/", "p", "m", "c", "/", "a", "r", "t", "i", "c", "l", "e", "s">>

\* positions where (PMC\d+) matches, ignoring case
PmcTokenStarts(t) ==
    {p \in 1..(Len(t) - 3) :
        /\ LowerStr(SubSeq(t, p, p + 2)) = <<"p", "m", "c">>
        /\ t[p + 3] \in Digits}

DigitRunEndOneDigit(t, p) == p

\* end of the greedy run of digits that starts at position p
DigitRunEnd(t, p) ==
    CHOOSE q \in p..Len(t) :
        /\ \A k \in p..q : t[k] \in Digits
        /\ (q = Len(t) \/ t[q + 1] \notin Digits)

\* re.search(r"(PMC\d+)", t, re.I): the leftmost match, or None
PmcTokenSearch(t) ==
    LET starts == PmcTokenStarts(t)
    IN  IF starts = {} THEN None
        ELSE LET p == CHOOSE i \in starts : \A j \in starts : i <= j
             IN  Some(SubSeq(t, p, DigitRunEnd(t, p + 3)))

\* the three rules, on the stripped value s of a field
IsAliasColumn(name) == LowerStr(name) \in PmcAliases
IsArticleUrl(s) == Contains(s, HttpStr) /\ Contains(s, PmcArticlesStr)
HasPmcToken(s) == PmcTokenSearch(s) # None

\* body of the loop for one non-missing field: the value returned, or None
\* when the loop goes on to the next column
FieldResult(name, val) ==
    LET s == Strip(val)
        m == PmcTokenSearch(s)
    IN  IF IsAliasColumn(name) THEN (IF m # None THEN m ELSE Some(s))
        ELSE IF IsArticleUrl(s) THEN Some(LastSegment(StripChars(s, {"/"})))
        ELSE m

RECURSIVE FindFrom(_, _)
FindFrom(row, i) ==
    IF i > Len(row) THEN None
    ELSE IF row[i].na THEN FindFrom(row, i + 1)
    ELSE LET res == FieldResult(row[i].name, row[i].s)
         IN  IF res # None THEN res ELSE FindFrom(row, i + 1)

find_pmcid_in_row(row) == FindFrom(row, 1)

\* --- inputs ---
PMC1234567 == <<"P", "M", "C", "1", "2", "3", "4", "5", "6", "7">>
ColumnNames == {<<"P", "M", "C", "I", "D">>, <<"t", "i", "t", "l", "e">>, <<"l", "i", "n", "k">>}
FieldValues == {<<"P", "M", "C", "1", "2", "3", "4", "5", "6", "7">>, <<"P", "M", "C", "9", "9">>, <<"n", "/", "a">>, <<" ", "s", "e", "e", " ", "p", "m", "c", "4", "2", "x", " ">>, <<"h", "t", "t", "p", "s", ":", "/", "/", "w", "w", "w", ".", "n", "c", "b", "i", ".", "n", "l", "m", ".", "n", "i", "h", ".", "g", "o", "v", "/", "p", "m", "c", "/", "a", "r", "t", "i", "c", "l", "e", "s", "/", "P", "M", "C", "5", "5", "5", "/">>}
Missing == [na |-> TRUE, s |-> <<>>]
Present(t) == [na |-> FALSE, s |-> t]
CellValues == {Missing} \cup {Present(t) : t \in FieldValues}
Field(name, cell) == [name |-> name, na |-> cell.na, s |-> cell.s]

\* rows of 1..MaxCols columns with distinct column names
Rows ==
    UNION {
        {[i \in 1..k |-> Field(ns[i], cs[i])] :
            ns \in {f \in [1..k -> ColumnNames] : \A i, j \in 1..k : f[i] = f[j] => i = j},
            cs \in [1..k -> CellValues]}
        : k \in 1..MaxCols}

ResolveIdle ==
    /\ r_pc = "idle"
    /\ r_row = <<>>
    /\ r_result = None

ResolveCalled ==
    /\ r_pc = "call"
    /\ r_row \in Rows
    /\ r_result = None

Resolve ==
    /\ r_pc = "call"
    /\ r_result' = find_pmcid_in_row(r_row)
    /\ r_pc' = "returned"
    /\ UNCHANGED <<r_row, nonResolveVars>>

\* ------------------------------------------------------------------------
\* Section extraction.  A fetched document is described by what the parser
\* finds in it: its abstract element, its <sec> elements, its heading
\* elements with the texts of their following siblings, its body element,
\* its citation_pdf_url meta tag and the hrefs of its anchors.
\* ------------------------------------------------------------------------
\* a dict in insertion order: a sequence of [key, val] with distinct keys
DictHas(d, k) == \E i \in 1..Len(d) : d[i].key = k

\* d[k] = v
DictSet(d, k, v) ==
    IF DictHas(d, k)
    THEN [i \in 1..Len(d) |-> IF d[i].key = k THEN [key |-> k, val |-> v] ELSE d[i]]
    ELSE Append(d, [key |-> k, val |-> v])

\* re.sub(r'\s+', '_', t): every run of whitespace becomes one "_"
RECURSIVE CollapseWs(_)
CollapseWs(t) ==
    IF t = <<>> THEN <<>>
    ELSE IF t[1] \in Whitespace
         THEN IF Len(t) > 1 /\ t[2] \in Whitespace
              THEN CollapseWs(Tail(t))
              ELSE <<"_">> \o CollapseWs(Tail(t))
         ELSE <<t[1]>> \o CollapseWs(Tail(t))

KEY_MAX == 60

\* key = re.sub(r'\s+','_', title.lower())[:60]
SectionKey(title) == Slice(CollapseWs(LowerStr(title)), 0, KEY_MAX)

SectionStr == <<"s", "e", "c", "t", "i", "o", "n">>
AbstractStr == <<"a", "b", "s", "t", "r", "a", "c", "t">>
FullTextStr == <<"f", "u", "l", "l", "_", "t", "e", "x", "t">>

\* the loop over <sec> elements, shared by both parsers
RECURSIVE SecSections(_, _, _)
SecSections(secs, i, sections) ==
    IF i > Len(secs) THEN sections
    ELSE LET title == IF secs[i].title # None THEN Strip(secs[i].title.val) ELSE SectionStr
             txt == Strip(secs[i].text)
         IN  SecSections(secs, i + 1,
                 IF txt # <<>> THEN DictSet(sections, SectionKey(title), txt) ELSE sections)

\* if not sections: body = soup.find('body'); sections['full_text'] = body text
BodyFallback(dom, sections) ==
    IF sections = <<>> /\ dom.body # None
    THEN DictSet(sections, FullTextStr, Strip(dom.body.val))
    ELSE sections

parse_xml_sections(dom) ==
    LET s0 == IF dom.abstract # None
              THEN DictSet(<<>>, AbstractStr, Strip(dom.abstract.val)) ELSE <<>>
    IN  BodyFallback(dom, SecSections(dom.secs, 1, s0))

\* "\n".join(parts)
RECURSIVE JoinLines(_)
JoinLines(parts) ==
    IF parts = <<>> THEN <<>>
    ELSE IF Len(parts) = 1 THEN parts[1]
    ELSE parts[1] \o <<"\n">> \o JoinLines(Tail(parts))

\* content_parts: the stripped non-blank sibling texts
RECURSIVE ContentParts(_)
ContentParts(sibs) ==
    IF sibs = <<>> THEN <<>>
    ELSE (IF Strip(sibs[1]) # <<>> THEN <<Strip(sibs[1])>> ELSE <<>>)
            \o ContentParts(Tail(sibs))

\* the loop over h1..h4 headings
RECURSIVE HeadingSections(_, _, _)
HeadingSections(hs, i, sections) ==
    IF i > Len(hs) THEN sections
    ELSE LET content == Strip(JoinLines(ContentParts(hs[i].sibs)))
         IN  HeadingSections(hs, i + 1,
                 IF content # <<>>
                 THEN DictSet(sections, SectionKey(Strip(hs[i].title)), content)
                 ELSE sections)

parse_html_sections(dom) ==
    BodyFallback(dom,
        IF dom.secs # <<>> THEN SecSections(dom.secs, 1, <<>>)
        ELSE HeadingSections(dom.headings, 1, <<>>))

DotPdf == <<".", "p", "d", "f">>
SlashPdf == <<"/", "p", "d", "f", "/">>

EndsWith(t, suffix) ==
    Len(t) >= Len(suffix) /\ SubSeq(t, Len(t) - Len(suffix) + 1, Len(t)) = suffix

\* href.lower().endswith(".pdf") or "/pdf/" in href
LooksLikePdf(href) == EndsWith(LowerStr(href), DotPdf) \/ Contains(href, SlashPdf)

\* the PDF link of an HTML page: the meta tag's content, else the first
\* anchor whose href looks like a PDF (the joined absolute URL is the href)
FindPdfUrl(dom) ==
    IF dom.pdf_meta # None /\ dom.pdf_meta.val # <<>> THEN dom.pdf_meta
    ELSE LET hits == {i \in 1..Len(dom.anchors) : LooksLikePdf(dom.anchors[i])}
         IN  IF hits = {} THEN None
             ELSE Some(dom.anchors[CHOOSE i \in hits : \A j \in hits : i <= j])

\* "\n\n".join(pages)
RECURSIVE JoinPages(_)
JoinPages(pages) ==
    IF pages = <<>> THEN <<>>
    ELSE IF Len(pages) = 1 THEN pages[1]
    ELSE pages[1] \o <<"\n", "\n">> \o JoinPages(Tail(pages))

\* a PDF is the page texts fitz reads from it, or unreadable
extract_text_from_pdf_bytes(pdf) ==
    IF pdf.corrupt THEN None
    ELSE Some(JoinPages(SelectSeq(pdf.pages, LAMBDA t : t # <<>>)))

\* ------------------------------------------------------------------------
\* download_text / download_binary, process_row, save_pub_json, ingest_all
\* ------------------------------------------------------------------------
MAX_RETRIES == 3

BackoffFixed(attempt) == 1000

\* time.sleep(1 + attempt*0.5), in milliseconds
BackoffMs(attempt) == 1000 + attempt * 500

\* --- documents the servers may answer with ---
NoDom == [empty |-> FALSE, malformed |-> FALSE, abstract |-> None, secs |-> <<>>,
          headings |-> <<>>, body |-> None, pdf_meta |-> None, anchors |-> <<>>]
\* a response with an empty body
EmptyText == [NoDom EXCEPT !.empty = TRUE]
\* markup on which the parser raises
MalformedText == [NoDom EXCEPT !.malformed = TRUE]
XmlArticle == [NoDom EXCEPT !.abstract = Some(<<" ", "A", "b", "\r", "\n">>),
                            !.secs = <<[title |-> Some(<<"K", "e", "y", " ", " ", "R", "e", "s", "u", "l", "t", "s">>), text |-> <<" ", "f", "o", "u", "n", "d", " ", "x", " ">>],
                                       [title |-> None, text |-> <<"m", "o", "r", "e">>]>>]
\* page with headings that carry text, and a PDF anchor
HtmlHeadings == [NoDom EXCEPT !.headings = <<[title |-> <<" ", "R", "e", "s", "u", "l", "t", "s", " ">>, sibs |-> <<<<"i", "t", " ">>, <<" ", " ">>>>]>>,
                              !.body = Some(<<"i", "t", " ", "w", "o", "r", "k", "s">>),
                              !.anchors = <<<<"/", "a", "b", "o", "u", "t">>, <<"/", "p", "m", "c", "/", "a", "/", "x", ".", "P", "D", "F">>>>]
\* page whose body holds only whitespace, with a PDF meta tag
HtmlBlankBody == [NoDom EXCEPT !.body = Some(<<" ", "\n">>), !.pdf_meta = Some(<<"u", "/", "p", "d", "f", "/", "1">>)]
\* page without body or sections, with a PDF anchor
HtmlBare == [NoDom EXCEPT !.anchors = <<<<"/", "p", "d", "f", "/", "2">>>>]
\* page with <sec> markup and no PDF link
HtmlSecsNoLink == [NoDom EXCEPT !.secs = <<[title |-> Some(<<"M", "e", "t", "h", "o", "d", "s">>), text |-> <<"w", "e", " ", "d", "i", "d">>]>>,
                                !.anchors = <<<<"/", "h", "e", "l", "p">>>>]
\* article whose <sec> is long enough to be indexed
XmlLong == [NoDom EXCEPT !.secs = <<[title |-> Some(<<"R", "e", "s", "u", "l", "t", "s">>),
                                     text |-> <<" ">> \o [i \in 1..45 |-> IF i % 9 = 0 THEN "x" ELSE "r"]]>>]
\* page whose body is long enough to be indexed, with a PDF anchor
HtmlLong == [NoDom EXCEPT !.body = Some([i \in 1..42 |-> IF i % 5 = 0 THEN "y" ELSE "h"] \o <<"\n">>),
                          !.anchors = <<<<"/", "p", "d", "f", "/", "3">>>>]
XmlPayloads == {EmptyText, MalformedText, XmlArticle, XmlLong}
HtmlPayloads == {EmptyText, MalformedText, HtmlHeadings, HtmlBlankBody, HtmlBare,
                 HtmlSecsNoLink, HtmlLong}
PdfPayloads == {[empty |-> TRUE, corrupt |-> FALSE, pages |-> <<>>],
                [empty |-> FALSE, corrupt |-> TRUE, pages |-> <<>>],
                [empty |-> FALSE, corrupt |-> FALSE, pages |-> <<<<>>>>],
                [empty |-> FALSE, corrupt |-> FALSE, pages |-> <<<<"P", "1">>, <<>>, <<"P", "2">>>>]}
Payloads(kind) ==
    IF kind = "xml" THEN XmlPayloads
    ELSE IF kind = "html" THEN HtmlPayloads ELSE PdfPayloads

\* truthiness of a returned str / bytes / None
Truthy(res) == res # None /\ ~res.val.empty
\* truthiness of an identifier (None or a str)
TruthyStr(res) == res # None /\ res.val # <<>>

DigitSeq == <<"0", "1", "2", "3", "4", "5", "6", "7", "8", "9">>

\* str(n) for n >= 0
RECURSIVE IntToStr(_)
IntToStr(n) ==
    IF n < 10 THEN <<DigitSeq[n + 1]>>
    ELSE IntToStr(n \div 10) \o <<DigitSeq[(n % 10) + 1]>>

RowPrefix == <<"r", "o", "w", "_">>

\* rec["id"]: pmc if pmc else f"row_{int(time.time()*1000)}"
RecId(pmc, now) == IF TruthyStr(pmc) THEN pmc.val ELSE RowPrefix \o IntToStr(now)

\* rec as built at the top of process_row (id and sections; the metadata
\* columns copied from the row play no part in fetching or indexing)
NewRec(pmc, now) == [id |-> RecId(pmc, now), sections |-> <<>>]

\* open(os.path.join(dir, f"{id}.ext"), "w") cannot succeed when the id names
\* a sub-directory, which none of the data directories has
WriteMustFail(id) == Contains(id, <<"/">>)

\* d[k] = v for a directory d of files
FilePut(d, k, v) == [x \in (DOMAIN d) \cup {k} |-> IF x = k THEN v ELSE d[x]]

\* --- inputs ---
IngestRows ==
    {<<Field(<<"P", "M", "C", "I", "D">>, Present(<<"P", "M", "C", "9", "9">>))>>,
     <<Field(<<"t", "i", "t", "l", "e">>, Present(<<"n", "/", "a">>))>>,
     <<Field(<<"P", "M", "C", "I", "D">>, Present(<<"n", "/", "a">>))>>}

IngestIdle ==
    /\ i_pc = "idle"
    /\ i_table = <<>>
    /\ i_idx = 0
    /\ i_clock = 0
    /\ i_rec = None
    /\ i_kind = "xml"
    /\ i_attempt = 0
    /\ i_sleeps = <<>>
    /\ i_reqs = <<>>
    /\ i_dlres = None
    /\ i_records = <<>>
    /\ i_pubs = <<>>
    /\ i_raw = <<>>

\* ingest_all(df) is called on an empty data directory
IngestCalled ==
    /\ i_pc = "next_row"
    /\ i_table \in UNION {[1..k -> IngestRows] : k \in 0..MaxRows}
    /\ i_idx = 0
    /\ i_clock = 0
    /\ i_rec = None
    /\ i_kind = "xml"
    /\ i_attempt = 0
    /\ i_sleeps = <<>>
    /\ i_reqs = <<>>
    /\ i_dlres = None
    /\ i_records = <<>>
    /\ i_pubs = <<>>
    /\ i_raw = <<>>

\* a call of download_text / download_binary begins
StartDownload(kind) ==
    /\ i_kind' = kind
    /\ i_attempt' = 0
    /\ i_sleeps' = <<>>
    /\ i_dlres' = None
    /\ i_pc' = "download"

\* process_row's locals of the download in progress go out of scope
DropLocals ==
    /\ i_kind' = "xml"
    /\ i_attempt' = 0
    /\ i_sleeps' = <<>>
    /\ i_reqs' = <<>>
    /\ i_dlres' = None

\* process_row returns rec to ingest_all
ReturnRec(rec) ==
    /\ i_rec' = rec
    /\ i_pc' = "save"
    /\ DropLocals

\* ingest_all takes the next row; process_row resolves the identifier, builds
\* rec and either starts the XML fetch or (no identifier) returns rec
StartRow ==
    /\ i_pc = "next_row"
    /\ i_idx < Len(i_table)
    /\ i_idx' = i_idx + 1
    /\ LET pmc == find_pmcid_in_row(i_table[i_idx + 1])
       IN  IF TruthyStr(pmc)
           THEN /\ i_rec' = NewRec(pmc, i_clock)
                /\ StartDownload("xml")
                /\ UNCHANGED <<i_reqs, i_clock>>
           ELSE \E now \in i_clock..MaxClock :
                   /\ i_clock' = now
                   /\ ReturnRec(NewRec(pmc, now))
    /\ UNCHANGED <<i_table, i_records, i_pubs, i_raw, nonIngestVars>>

\* one iteration of the retry loop in which the request succeeds
DlSuccess ==
    /\ i_pc = "download"
    /\ i_attempt < MAX_RETRIES
    /\ \E payload \in Payloads(i_kind) :
        /\ i_reqs' = Append(i_reqs, [kind |-> i_kind, ok |-> TRUE])
        /\ i_dlres' = Some(payload)
        /\ i_pc' = "fetched"
    /\ UNCHANGED <<i_table, i_idx, i_clock, i_rec, i_kind, i_attempt, i_sleeps,
                   i_records, i_pubs, i_raw, nonIngestVars>>

\* one iteration of the retry loop in which session.get or raise_for_status
\* raises (a timeout, an error status and a transport error are all caught by
\* the same `except Exception`): sleep, and return None once the attempts are
\* used up
DlFailure ==
    /\ i_pc = "download"
    /\ i_attempt < MAX_RETRIES
    /\ i_reqs' = Append(i_reqs, [kind |-> i_kind, ok |-> FALSE])
    /\ i_sleeps' = Append(i_sleeps, BackoffMs(i_attempt))
    /\ i_attempt' = i_attempt + 1
    /\ i_dlres' = None
    /\ i_pc' = IF i_attempt + 1 < MAX_RETRIES THEN "download" ELSE "fetched"
    /\ UNCHANGED <<i_table, i_idx, i_clock, i_rec, i_kind, i_records, i_pubs, i_raw,
                   nonIngestVars>>

\* `if xml:` sections parsed, raw XML cached, rec returned
XmlHit ==
    /\ i_pc = "fetched" /\ i_kind = "xml"
    /\ Truthy(i_dlres)
    /\ ~i_dlres.val.malformed
    /\ ~WriteMustFail(i_rec.id)
    /\ i_raw' = FilePut(i_raw, <<i_rec.id, "xml">>, i_dlres.val)
    /\ ReturnRec([i_rec EXCEPT !.sections = parse_xml_sections(i_dlres.val)])
    /\ UNCHANGED <<i_table, i_idx, i_clock, i_records, i_pubs, nonIngestVars>>

\* no XML: fall back to the HTML page
XmlMiss ==
    /\ i_pc = "fetched" /\ i_kind = "xml"
    /\ ~Truthy(i_dlres)
    /\ StartDownload("html")
    /\ UNCHANGED <<i_table, i_idx, i_clock, i_rec, i_reqs, i_records, i_pubs,
                   i_raw, nonIngestVars>>

\* `if html:` sections parsed, raw HTML cached, a PDF link found: download it
HtmlHitLink ==
    /\ i_pc = "fetched" /\ i_kind = "html"
    /\ Truthy(i_dlres)
    /\ ~i_dlres.val.malformed
    /\ ~WriteMustFail(i_rec.id)
    /\ FindPdfUrl(i_dlres.val) # None
    /\ i_raw' = FilePut(i_raw, <<i_rec.id, "html">>, i_dlres.val)
    /\ i_rec' = [i_rec EXCEPT !.sections = parse_html_sections(i_dlres.val)]
    /\ StartDownload("pdf")
    /\ UNCHANGED <<i_table, i_idx, i_clock, i_reqs, i_records, i_pubs,
                   nonIngestVars>>

\* `if html:` sections parsed, raw HTML cached, no PDF link: rec returned
HtmlHitNoLink ==
    /\ i_pc = "fetched" /\ i_kind = "html"
    /\ Truthy(i_dlres)
    /\ ~i_dlres.val.malformed
    /\ ~WriteMustFail(i_rec.id)
    /\ FindPdfUrl(i_dlres.val) = None
    /\ i_raw' = FilePut(i_raw, <<i_rec.id, "html">>, i_dlres.val)
    /\ ReturnRec([i_rec EXCEPT !.sections = parse_html_sections(i_dlres.val)])
    /\ UNCHANGED <<i_table, i_idx, i_clock, i_records, i_pubs, nonIngestVars>>

\* no HTML either: the minimal rec is returned
HtmlMiss ==
    /\ i_pc = "fetched" /\ i_kind = "html"
    /\ ~Truthy(i_dlres)
    /\ ReturnRec(i_rec)
    /\ UNCHANGED <<i_table, i_idx, i_clock, i_records, i_pubs, i_raw, nonIngestVars>>

\* `if pdf_bytes:` raw PDF cached, text extracted and used when rec has no
\* sections; rec returned
PdfHit ==
    /\ i_pc = "fetched" /\ i_kind = "pdf"
    /\ Truthy(i_dlres)
    /\ ~WriteMustFail(i_rec.id)
    /\ i_raw' = FilePut(i_raw, <<i_rec.id, "pdf">>, i_dlres.val)
    /\ LET txt == extract_text_from_pdf_bytes(i_dlres.val)
       IN  ReturnRec(IF TruthyStr(txt) /\ i_rec.sections = <<>>
                     THEN [i_rec EXCEPT !.sections = <<[key |-> FullTextStr, val |-> txt.val]>>]
                     ELSE i_rec)
    /\ UNCHANGED <<i_table, i_idx, i_clock, i_records, i_pubs, nonIngestVars>>

\* no PDF bytes: rec returned as the HTML left it
PdfMiss ==
    /\ i_pc = "fetched" /\ i_kind = "pdf"
    /\ ~Truthy(i_dlres)
    /\ ReturnRec(i_rec)
    /\ UNCHANGED <<i_table, i_idx, i_clock, i_records, i_pubs, i_raw, nonIngestVars>>

\* an exception inside process_row's try (the parser raising on the markup,
\* or the raw-cache write raising): it is printed, process_row returns None
\* and ingest_all skips the row
RowException ==
    /\ i_pc = "fetched"
    /\ Truthy(i_dlres)
    /\ i_rec' = None
    /\ i_pc' = "next_row"
    /\ DropLocals
    /\ UNCHANGED <<i_table, i_idx, i_clock, i_records, i_pubs, i_raw, nonIngestVars>>

\* `if rec:` save_pub_json(rec); records.append(rec)
SaveOk ==
    /\ i_pc = "save"
    /\ ~WriteMustFail(i_rec.id)
    /\ i_pubs' = FilePut(i_pubs, i_rec.id, i_rec)
    /\ i_records' = Append(i_records, i_rec)
    /\ i_pc' = "next_row"
    /\ UNCHANGED <<i_table, i_idx, i_clock, i_rec, i_kind, i_attempt, i_sleeps, i_reqs,
                   i_dlres, i_raw, nonIngestVars>>

\* save_pub_json raises (the file cannot be opened or written): nothing in
\* ingest_all catches it, so the exception leaves ingest_all
SaveRaise ==
    /\ i_pc = "save"
    /\ i_pc' = "raised"
    /\ UNCHANGED <<i_table, i_idx, i_clock, i_rec, i_kind, i_attempt, i_sleeps, i_reqs,
                   i_dlres, i_records, i_pubs, i_raw, nonIngestVars>>

\* the loop over rows is exhausted: return records
IngestReturn ==
    /\ i_pc = "next_row"
    /\ i_idx = Len(i_table)
    /\ i_pc' = "returned"
    /\ UNCHANGED <<i_table, i_idx, i_clock, i_rec, i_kind, i_attempt, i_sleeps, i_reqs,
                   i_dlres, i_records, i_pubs, i_raw, nonIngestVars>>

\* ------------------------------------------------------------------------
\* build_chunks_and_embeddings, build_faiss, load_cached_records and the two
\* mains that run them
\* ------------------------------------------------------------------------
CHUNK_SIZE_CHARS == 1200
CHUNK_OVERLAP == 250
BATCH_SIZE_EMB == 64
MIN_SECTION_LEN == 40
EXCERPT_LEN == 300

\* the embedding function: opaque, one vector per text
Embed(t) == [vec |-> t]

\* model.encode(batch): one row per text, in order
Encode(batch) == [j \in 1..Len(batch) |-> Embed(batch[j])]

SectionPrefs == <<<<"r", "e", "s", "u", "l", "t", "s">>, <<"r", "e", "s", "u", "l", "t">>, <<"d", "i", "s", "c", "u", "s", "s", "i", "o", "n">>, <<"c", "o", "n", "c", "l", "u", "s", "i", "o", "n">>, <<"a", "b", "s", "t", "r", "a", "c", "t">>, <<"f", "u", "l", "l", "_", "t", "e", "x", "t">>>>

\* the first preference a key contains, or one past the last when it
\* contains none: the pass of the loop over SectionPrefs that appends it
PrefTier(k) ==
    LET hits == {p \in 1..Len(SectionPrefs) : Contains(LowerStr(k), SectionPrefs[p])}
    IN  IF hits = {} THEN Len(SectionPrefs) + 1
        ELSE CHOOSE p \in hits : \A q \in hits : p <= q

\* concatenation of seqs[lo..hi]
RECURSIVE Flatten(_, _, _)
Flatten(seqs, lo, hi) ==
    IF lo > hi THEN <<>>
    ELSE IF lo = hi THEN seqs[lo]
    ELSE LET mid == (lo + hi) \div 2
         IN  Flatten(seqs, lo, mid) \o Flatten(seqs, mid + 1, hi)

\* `order`: for each preference in turn the keys containing it that are not
\* yet listed, in dict order; then the remaining keys in dict order
SectionOrder(secs) ==
    LET keys == [j \in 1..Len(secs) |-> secs[j].key]
        tiers == [p \in 1..(Len(SectionPrefs) + 1) |->
                    SelectSeq(keys, LAMBDA k : PrefTier(k) = p)]
    IN  Flatten(tiers, 1, Len(tiers))

\* secs.get(sec, "")
DictGet(d, k) ==
    IF DictHas(d, k) THEN d[CHOOSE i \in 1..Len(d) : d[i].key = k].val ELSE <<>>

SkipsUntrimmed(txt) == txt = <<>> \/ Len(txt) < MIN_SECTION_LEN

\* `if not txt or len(txt.strip()) < 40: continue`
Skips(txt) == txt = <<>> \/ Len(Strip(txt)) < MIN_SECTION_LEN

\* the (text, meta) pairs one section contributes
SectionEntries(pid, sec, txt) ==
    IF Skips(txt) THEN <<>>
    ELSE LET chunks == split_text_to_chunks(txt, CHUNK_SIZE_CHARS, CHUNK_OVERLAP)
         IN  [c \in 1..Len(chunks) |->
                [text |-> chunks[c].text,
                 meta |-> [pub_id |-> pid, section |-> sec,
                           start |-> chunks[c].start, end |-> chunks[c].end,
                           excerpt |-> Slice(chunks[c].text, 0, EXCERPT_LEN)]]]

\* the loop over `order`
RecordEntries(rec) ==
    LET order == SectionOrder(rec.sections)
        parts == [j \in 1..Len(order) |->
                    SectionEntries(rec.id, order[j], DictGet(rec.sections, order[j]))]
    IN  Flatten(parts, 1, Len(parts))

\* the loop over records: texts and meta, appended pairwise
CollectEntries(records) ==
    LET parts == [r \in 1..Len(records) |-> RecordEntries(records[r])]
    IN  Flatten(parts, 1, Len(parts))

BatchShort(texts, i) == Slice(texts, i, i + BATCH_SIZE_EMB - 1)

\* batch = texts[i:i+BATCH_SIZE_EMB]
Batch(texts, i) == Slice(texts, i, i + BATCH_SIZE_EMB)

\* np.vstack(emb_list): the rows of the batches, in list order
VStack(emb_list) == Flatten(emb_list, 1, Len(emb_list))

NeverEmpty(texts) == FALSE

\* `if not texts:`
NoTexts(texts) == texts = <<>>

\* --- files ---
Absent == [absent |-> TRUE]
\* a file left truncated by a write that raised
Partial == [partial |-> TRUE]
File(data) == [data |-> data]
IsFile(f) == f # Absent /\ f # Partial

\* --- load_cached_records ---
AsciiOrder == <<".", "/", "0", "1", "2", "3", "4", "5", "6", "7", "8", "9", "A", "B", "C", "D", "E", "F", "G", "H", "I", "J", "K", "L", "M", "N", "O", "P", "Q", "R", "S", "T", "U", "V", "W", "X", "Y", "Z", "_", "a", "b", "c", "d", "e", "f", "g", "h", "i", "j", "k", "l", "m", "n", "o", "p", "q", "r", "s", "t", "u", "v", "w", "x", "y", "z">>
CharRank(c) == CHOOSE i \in 1..Len(AsciiOrder) : AsciiOrder[i] = c

RECURSIVE LexLess(_, _)
LexLess(a, b) ==
    IF a = <<>> THEN b # <<>>
    ELSE IF b = <<>> THEN FALSE
    ELSE IF a[1] = b[1] THEN LexLess(Tail(a), Tail(b))
    ELSE CharRank(a[1]) < CharRank(b[1])

JsonExt == <<".", "j", "s", "o", "n">>
PmcPrefix == <<"P", "M", "C">>
FileName(id) == id \o JsonExt
StartsWith(t, prefix) == Len(t) >= Len(prefix) /\ SubSeq(t, 1, Len(prefix)) = prefix

\* sorted(paths)
RECURSIVE SortedIds(_)
SortedIds(ids) ==
    IF ids = {} THEN <<>>
    ELSE LET first == CHOOSE a \in ids :
                        \A b \in ids \ {a} : LexLess(FileName(a), FileName(b))
         IN  <<first>> \o SortedIds(ids \ {first})

\* the records of sorted(pub_dir.glob("PMC*.json"))
load_cached_records(pubs) ==
    LET ids == SortedIds({id \in DOMAIN pubs : StartsWith(FileName(id), PmcPrefix)})
    IN  [j \in 1..Len(ids) |-> pubs[ids[j]]]

\* --- inputs: records as ingest_all produces and persists them ---
\* a text of n characters that starts with the digits of k
NumText(n, k) ==
    LET d == IntToStr(k) IN d \o [i \in 1..(n - Len(d)) |-> "a"]
\* the same text with surrounding whitespace
Padded(t) == <<" ", "\t">> \o t \o <<"\n", " ", " ">>
\* a long text with carriage returns in it
LongText == [i \in 1..LongLen |-> IF i % 100 = 0 THEN "\r"
                                  ELSE IF i % 7 = 0 THEN "b" ELSE "a"]
Sec(key, val) == [key |-> key, val |-> val]

RecShort == [id |-> <<"P", "M", "C", "1", "0">>,
             sections |-> <<Sec(<<"i", "n", "t", "r", "o">>, NumText(10, 1)), Sec(<<"b", "l", "a", "n", "k">>, <<>>)>>]
RecEdge == [id |-> <<"P", "M", "C", "9">>,
            sections |-> <<Sec(<<"m", "e", "t", "h", "o", "d", "s">>, Padded(NumText(MIN_SECTION_LEN - 1, 2))),
                           Sec(<<"i", "n", "t", "r", "o">>, NumText(10, 3)),
                           Sec(<<"m", "a", "i", "n", "_", "r", "e", "s", "u", "l", "t", "s">>, Padded(NumText(MIN_SECTION_LEN, 4))),
                           Sec(<<"a", "b", "s", "t", "r", "a", "c", "t">>, NumText(MIN_SECTION_LEN + 1, 5))>>]
RecLong == [id |-> <<"P", "M", "C", "2">>, sections |-> <<Sec(<<"d", "i", "s", "c", "u", "s", "s", "i", "o", "n">>, LongText)>>]
RecMany == [id |-> <<"P", "M", "C", "3">>,
            sections |-> [j \in 1..ManySections |->
                            Sec(<<"s">> \o IntToStr(j), NumText(MIN_SECTION_LEN, j))]]
RecRow == [id |-> <<"r", "o", "w", "_", "1">>, sections |-> <<Sec(FullTextStr, NumText(50, 7))>>]

IngestCorpora == {<<>>, <<RecShort>>, <<RecShort, RecRow>>, <<RecEdge, RecLong>>, <<RecMany>>}

\* save_pub_json for every record of the list
RECURSIVE SaveAll(_, _)
SaveAll(pubs, records) ==
    IF records = <<>> THEN pubs
    ELSE SaveAll(FilePut(pubs, records[1].id, records[1]), Tail(records))

IndexIdle ==
    /\ x_pc = "idle"
    /\ x_entry = "none"
    /\ x_pass = 0
    /\ x_pubs = <<>>
    /\ x_records = <<>>
    /\ x_texts = <<>>
    /\ x_meta = <<>>
    /\ x_i = 0
    /\ x_emb_list = <<>>
    /\ x_encodes = 0
    /\ f_emb = Absent
    /\ f_meta = Absent
    /\ f_faiss = Absent
    /\ f_info = Absent

\* a data directory with no index artifacts and the publications of an
\* earlier ingestion, if any
IndexFresh ==
    /\ x_pc = "idle"
    /\ x_entry = "none"
    /\ x_pass = 0
    /\ x_pubs \in {SaveAll(<<>>, c) : c \in {<<>>, <<RecEdge, RecShort>>}}
    /\ x_records = <<>>
    /\ x_texts = <<>>
    /\ x_meta = <<>>
    /\ x_i = 0
    /\ x_emb_list = <<>>
    /\ x_encodes = 0
    /\ f_emb = Absent
    /\ f_meta = Absent
    /\ f_faiss = Absent
    /\ f_info = Absent

\* no main is running
Quiescent == x_pc \in {"idle", "done", "nothing", "no_records", "aborted"}

\* build_chunks_and_embeddings up to `if not texts:`: the model is loaded,
\* texts and meta are collected; with no texts (None, None) is returned, on
\* which ingest main returns and rebuild main raises RuntimeError
BeginBuild(records) ==
    \E entries \in {CollectEntries(records)} :
        /\ x_records' = records
        /\ x_texts' = [j \in 1..Len(entries) |-> entries[j].text]
        /\ x_meta' = [j \in 1..Len(entries) |-> entries[j].meta]
        /\ x_i' = 0
        /\ x_emb_list' = <<>>
        /\ x_encodes' = 0
        /\ x_pc' = IF NoTexts(x_texts') THEN "nothing"
                   ELSE IF 0 < Len(x_texts') THEN "embed" ELSE "save_emb"

\* ingest main: ingest_all has returned `records` (each saved under its id),
\* then the pass begins
IngestMainBuild ==
    /\ Quiescent
    /\ x_pass < MaxPasses
    /\ x_pass' = x_pass + 1
    /\ x_entry' = "ingest"
    /\ \E corpus \in IngestCorpora :
        /\ x_pubs' = SaveAll(x_pubs, corpus)
        /\ BeginBuild(corpus)
    /\ UNCHANGED <<f_emb, f_meta, f_faiss, f_info, nonIndexVars>>

\* rebuild main with cached records: the pass begins
RebuildMainBuild ==
    /\ Quiescent
    /\ x_pass < MaxPasses
    /\ load_cached_records(x_pubs) # <<>>
    /\ x_pass' = x_pass + 1
    /\ x_entry' = "rebuild"
    /\ BeginBuild(load_cached_records(x_pubs))
    /\ UNCHANGED <<x_pubs, f_emb, f_meta, f_faiss, f_info, nonIndexVars>>

\* rebuild main without cached records: RuntimeError before any pass
RebuildNoRecords ==
    /\ Quiescent
    /\ x_pass < MaxPasses
    /\ load_cached_records(x_pubs) = <<>>
    /\ x_pass' = x_pass + 1
    /\ x_entry' = "rebuild"
    /\ x_records' = <<>>
    /\ x_texts' = <<>>
    /\ x_meta' = <<>>
    /\ x_i' = 0
    /\ x_emb_list' = <<>>
    /\ x_encodes' = 0
    /\ x_pc' = "no_records"
    /\ UNCHANGED <<x_pubs, f_emb, f_meta, f_faiss, f_info, nonIndexVars>>

\* the main is left: texts, meta, i and emb_list go out of scope
DropPassLocals ==
    /\ x_texts' = <<>>
    /\ x_meta' = <<>>
    /\ x_i' = 0
    /\ x_emb_list' = <<>>

\* one iteration of the batch loop: encode the batch, append its rows
EmbedBatch ==
    /\ x_pc = "embed"
    /\ x_i < Len(x_texts)
    /\ x_emb_list' = Append(x_emb_list, Encode(Batch(x_texts, x_i)))
    /\ x_encodes' = x_encodes + 1
    /\ x_i' = x_i + BATCH_SIZE_EMB
    /\ x_pc' = IF x_i + BATCH_SIZE_EMB < Len(x_texts) THEN "embed" ELSE "save_emb"
    /\ UNCHANGED <<x_entry, x_pass, x_pubs, x_records, x_texts, x_meta,
                   f_emb, f_meta, f_faiss, f_info, nonIndexVars>>

\* model.encode raises: the exception leaves the main
EmbedRaise ==
    /\ x_pc = "embed"
    /\ x_i < Len(x_texts)
    /\ x_encodes' = x_encodes + 1
    /\ x_pc' = "aborted"
    /\ DropPassLocals
    /\ UNCHANGED <<x_entry, x_pass, x_pubs, x_records,
                   f_emb, f_meta, f_faiss, f_info, nonIndexVars>>

\* embeddings = np.vstack(emb_list); np.save(EMBEDDINGS_PATH, embeddings)
SaveEmbeddings ==
    /\ x_pc = "save_emb"
    /\ x_emb_list # <<>>
    /\ f_emb' = File(VStack(x_emb_list))
    /\ x_pc' = "save_meta"
    /\ UNCHANGED <<x_entry, x_pass, x_pubs, x_records, x_texts, x_meta, x_i, x_emb_list,
                   x_encodes, f_meta, f_faiss, f_info, nonIndexVars>>

\* json.dump(meta, f) into CHUNKS_META_PATH; return embeddings, meta
SaveMeta ==
    /\ x_pc = "save_meta"
    /\ f_meta' = File(x_meta)
    /\ x_pc' = "write_index"
    /\ UNCHANGED <<x_entry, x_pass, x_pubs, x_records, x_texts, x_meta, x_i, x_emb_list,
                   x_encodes, f_emb, f_faiss, f_info, nonIndexVars>>

\* build_faiss: index.add(embeddings); faiss.write_index(index, FAISS_INDEX_PATH)
WriteIndex ==
    /\ x_pc = "write_index"
    /\ f_faiss' = File(VStack(x_emb_list))
    /\ x_pc' = "write_info"
    /\ UNCHANGED <<x_entry, x_pass, x_pubs, x_records, x_texts, x_meta, x_i, x_emb_list,
                   x_encodes, f_emb, f_meta, f_info, nonIndexVars>>

\* build_faiss: json.dump({"n_vectors": embeddings.shape[0], "dim": dim}, f)
WriteInfo ==
    /\ x_pc = "write_info"
    /\ f_info' = File([n_vectors |-> Len(VStack(x_emb_list)), dim |-> "shape[1]"])
    /\ x_pc' = "done"
    /\ DropPassLocals
    /\ UNCHANGED <<x_entry, x_pass, x_pubs, x_records, x_encodes, f_emb, f_meta, f_faiss,
                   nonIndexVars>>

\* what a write that raises leaves of the file it was writing: the file as it
\* was (it could not be opened) or a truncated file
AfterFailedWrite(f) == {f, Partial}

\* one of the four writes raises (np.vstack on an empty list raises as well):
\* the exception leaves the main, the files written before it stay
WriteRaise ==
    /\ x_pc \in {"save_emb", "save_meta", "write_index", "write_info"}
    /\ \E left \in AfterFailedWrite(
            IF x_pc = "save_emb" THEN f_emb ELSE IF x_pc = "save_meta" THEN f_meta
            ELSE IF x_pc = "write_index" THEN f_faiss ELSE f_info) :
        /\ f_emb' = IF x_pc = "save_emb" /\ x_emb_list # <<>> THEN left ELSE f_emb
        /\ f_meta' = IF x_pc = "save_meta" THEN left ELSE f_meta
        /\ f_faiss' = IF x_pc = "write_index" THEN left ELSE f_faiss
        /\ f_info' = IF x_pc = "write_info" THEN left ELSE f_info
    /\ x_pc' = "aborted"
    /\ DropPassLocals
    /\ UNCHANGED <<x_entry, x_pass, x_pubs, x_records, x_encodes, nonIndexVars>>

\* ingest main after ingest_all: `records` is what ingest_all returned, the
\* publications directory holds what save_pub_json left there, and
\* build_chunks_and_embeddings(records) begins
MainAfterIngest ==
    /\ i_pc = "returned"
    /\ x_pc = "idle"
    /\ x_pass' = x_pass + 1
    /\ x_entry' = "ingest"
    /\ x_pubs' = i_pubs
    /\ BeginBuild(i_records)
    /\ UNCHANGED <<f_emb, f_meta, f_faiss, f_info, nonIndexVars>>

\* ------------------------------------------------------------------------
\* Specifications
\* ------------------------------------------------------------------------
\* one call of split_text_to_chunks
SplitInit == SplitCalled /\ ResolveIdle /\ IngestIdle /\ IndexIdle
SplitNext == SplitEmpty \/ SplitEnter \/ SplitIter
SplitSpec == SplitInit /\ [][SplitNext]_vars
\* the loop is sequential code: it keeps running until it returns
FairSplitSpec == SplitSpec /\ WF_vars(SplitNext)

\* one call of find_pmcid_in_row
ResolveInit == ResolveCalled /\ SplitIdle /\ IngestIdle /\ IndexIdle
ResolveNext == Resolve
ResolveSpec == ResolveInit /\ [][ResolveNext]_vars

\* one call of ingest_all on a table of rows
IngestInit == IngestCalled /\ SplitIdle /\ ResolveIdle /\ IndexIdle
IngestNext ==
    \/ StartRow \/ DlSuccess \/ DlFailure
    \/ XmlHit \/ XmlMiss \/ HtmlHitLink \/ HtmlHitNoLink \/ HtmlMiss
    \/ PdfHit \/ PdfMiss \/ RowException
    \/ SaveOk \/ SaveRaise \/ IngestReturn
IngestSpec == IngestInit /\ [][IngestNext]_vars

\* indexing passes run one after another by ingest main or rebuild main
IndexInit == IndexFresh /\ SplitIdle /\ ResolveIdle /\ IngestIdle
IndexNext ==
    \/ IngestMainBuild \/ RebuildMainBuild \/ RebuildNoRecords
    \/ EmbedBatch \/ EmbedRaise
    \/ SaveEmbeddings \/ SaveMeta \/ WriteIndex \/ WriteInfo \/ WriteRaise
IndexSpec == IndexInit /\ [][IndexNext]_vars

\* ingest main: ingest_all on a table of rows, then one indexing pass over
\* the records it returned
PipelineNext ==
    \/ IngestNext
    \/ MainAfterIngest
    \/ EmbedBatch \/ EmbedRaise
    \/ SaveEmbeddings \/ SaveMeta \/ WriteIndex \/ WriteInfo \/ WriteRaise
PipelineSpec == IngestInit /\ [][PipelineNext]_vars

\* ------------------------------------------------------------------------
\* Properties of split_text_to_chunks
\* ------------------------------------------------------------------------
\* C3: every returned chunk satisfies 0 <= start < end <= len(text) and the
\* slice [start:end] of the caller's original text equals the chunk's text.
C3_SliceOfOriginal ==
    s_pc = "returned" =>
        \A i \in 1..Len(s_chunks) :
            /\ 0 <= s_chunks[i].start
            /\ s_chunks[i].start < s_chunks[i].end
            /\ s_chunks[i].end <= Len(s_orig)
            /\ Slice(s_orig, s_chunks[i].start, s_chunks[i].end) = s_chunks[i].text

C4_Spans ==
    s_pc = "returned" =>
        LET L == Len(s_orig)
            n == Len(s_chunks)
            step == s_size - s_overlap
        IN  /\ (L = 0) => (n = 0)
            /\ (L > 0) =>
                /\ n >= 1
                /\ s_chunks[1].start = 0
                /\ \A i \in 1..n : s_chunks[i].end = Min(s_chunks[i].start + s_size, L)
                /\ \A i \in 1..(n - 1) :
                    /\ s_chunks[i + 1].start = s_chunks[i].start + step
                    /\ s_chunks[i + 1].start > s_chunks[i].start
                    /\ s_chunks[i + 1].start < L
                    /\ (s_chunks[i].start + s_size <= L) =>
                          Min(s_chunks[i].end, s_chunks[i + 1].end)
                              - s_chunks[i + 1].start = s_overlap
                /\ s_chunks[n].start + step >= L

\* C4: for 0 <= overlap < chunk_size the splitter terminates; the first span
\* starts at 0, each next span starts chunk_size - overlap further right, every
\* end is min(start + chunk_size, L), emission stops as soon as the next start
\* would be >= L, consecutive spans whose earlier span is not clamped overlap
\* by exactly `overlap` characters, and empty text yields no span.
C4_SplitTerminatesWithSpans == []C4_Spans /\ <>(s_pc = "returned")

C4_Witness ==
    /\ s_pc = "returned"
    /\ Len(s_chunks) >= 3
    /\ s_overlap > 0
    /\ s_chunks[1].end - s_chunks[1].start = s_size
    /\ s_chunks[Len(s_chunks)].end - s_chunks[Len(s_chunks)].start < s_size

\* ------------------------------------------------------------------------
\* Properties of find_pmcid_in_row
\* ------------------------------------------------------------------------
\* a non-missing field that matches one of the three rules
FieldMatches(f) ==
    /\ ~f.na
    /\ \/ IsAliasColumn(f.name)
       \/ IsArticleUrl(Strip(f.s))
       \/ HasPmcToken(Strip(f.s))

NoneOnlyIfNoMatch ==
    (r_result = None) => (\A i \in 1..Len(r_row) : ~FieldMatches(r_row[i]))

\* C8 as stated: whenever some column holds the literal "PMC1234567" the
\* resolver returns "PMC1234567", whatever the other columns hold; and None
\* is returned only if no non-missing field matches any rule.
C8_AnyColumnLiteral ==
    r_pc = "returned" =>
        /\ (\E i \in 1..Len(r_row) : ~r_row[i].na /\ r_row[i].s = PMC1234567)
              => r_result = Some(PMC1234567)
        /\ NoneOnlyIfNoMatch

\* C8 amended: the literal "PMC1234567" is returned when no earlier column (in
\* column order) holds a non-missing value that matches a rule; None is
\* returned only if no non-missing field matches any rule.
C8_FirstMatchLiteral ==
    r_pc = "returned" =>
        /\ \A i \in 1..Len(r_row) :
              (/\ ~r_row[i].na
               /\ r_row[i].s = PMC1234567
               /\ \A j \in 1..(i - 1) : ~FieldMatches(r_row[j]))
              => r_result = Some(PMC1234567)
        /\ NoneOnlyIfNoMatch

C8_Witness ==
    /\ r_pc = "returned"
    /\ Len(r_row) = 3
    /\ ~r_row[3].na /\ r_row[3].s = PMC1234567
    /\ r_row[1].na
    /\ ~r_row[2].na /\ ~FieldMatches(r_row[2])
    /\ r_result = Some(PMC1234567)

\* ------------------------------------------------------------------------
\* Properties of the fetch cascade and of ingest_all
\* ------------------------------------------------------------------------
InRow == i_pc \in {"download", "fetched"}

SourceRank(kind) == IF kind = "xml" THEN 1 ELSE IF kind = "html" THEN 2 ELSE 3

\* no section of the mapping has a non-empty body
NoSectionText(sections) == \A i \in 1..Len(sections) : sections[i].val = <<>>

\* requests of the download call in progress
CallReqs == SelectSeq(i_reqs, LAMBDA r : r.kind = i_kind)

RequestsInPriorityOrder ==
    \A j, k \in 1..Len(i_reqs) :
        j < k => SourceRank(i_reqs[j].kind) <= SourceRank(i_reqs[k].kind)

\* the PDF is requested only after an HTML page that yielded no section text
PdfOnlyWithoutHtmlText ==
    (InRow /\ i_kind = "pdf") => NoSectionText(i_rec.sections)

\* the HTML page is requested only after the XML fetch returned nothing
HtmlOnlyAfterXmlMiss ==
    (i_pc = "fetched" /\ i_pc' = "download" /\ i_kind' = "html")
        => (i_kind = "xml" /\ ~Truthy(i_dlres))

\* C5: for a row with an identifier the sources are requested in the order
\* XML, HTML, PDF; HTML only if XML returned nothing, PDF only if XML returned
\* nothing and the HTML page yielded no section text; after a non-empty result
\* no further request is issued for the row.
C5_StopsAtFirstResult ==
    /\ [](RequestsInPriorityOrder /\ PdfOnlyWithoutHtmlText)
    /\ [][HtmlOnlyAfterXmlMiss]_vars

StrictlyIncreasing(seq) == \A j, k \in 1..Len(seq) : j < k => seq[j] < seq[k]

DownloadBounded ==
    InRow =>
        /\ Len(CallReqs) <= MAX_RETRIES
        /\ \A j \in 1..(Len(CallReqs) - 1) : ~CallReqs[j].ok
        /\ Len(i_sleeps) = Len(SelectSeq(CallReqs, LAMBDA r : ~r.ok))
        /\ StrictlyIncreasing(i_sleeps)
        /\ (i_pc = "fetched") =>
              /\ Len(CallReqs) >= 1
              /\ (i_dlres = None) <=> (Len(i_sleeps) = MAX_RETRIES)
              /\ (i_dlres # None) <=> CallReqs[Len(CallReqs)].ok
        /\ (i_pc = "download") => (i_dlres = None /\ Len(i_sleeps) = Len(CallReqs))

\* after the last failure the call has returned None and process_row carries
\* on: XML -> HTML download, HTML or PDF -> rec is returned to be saved
MissProceeds ==
    (i_pc = "fetched" /\ i_dlres = None) =>
        /\ i_pc' # "raised"
        /\ i_rec' # None
        /\ (i_kind = "xml") => (i_pc' = "download" /\ i_kind' = "html" /\ i_rec' = i_rec)
        /\ (i_kind # "xml") => (i_pc' = "save" /\ i_rec' = i_rec)

\* C6: a download call issues at most MAX_RETRIES requests and none after a
\* successful one, sleeps a strictly increasing delay after each failure, and
\* after MAX_RETRIES failures returns None without raising, so that
\* process_row goes on to the next source instead of failing the row.
C6_BoundedRetriesCleanMiss == []DownloadBounded /\ [][MissProceeds]_vars

C6_Witness ==
    /\ i_pc = "download" /\ i_kind = "html"
    /\ Len(i_reqs) = MAX_RETRIES
    /\ \A j \in 1..Len(i_reqs) : i_reqs[j].kind = "xml" /\ ~i_reqs[j].ok

\* C7: a failure while handling a row, at any step up to and including
\* save_pub_json, never aborts the batch: no exception leaves ingest_all.
C7_BatchNeverAborts == i_pc # "raised"

\* ------------------------------------------------------------------------
\* Properties of the indexing pass
\* ------------------------------------------------------------------------
\* the text of the chunk a metadata entry describes: the slice [start:end]
\* of the record's section, with carriage returns normalised as the splitter
\* does
DescribedText(rec, m) ==
    ReplaceCR(Slice(DictGet(rec.sections, m.section), m.start, m.end))

\* C1: after a completed pass the persisted matrix has as many rows as the
\* persisted chunk metadata has entries, index_info's n_vectors is that
\* number, and row i is the embedding of the chunk text entry i describes.
C1_RowsMatchMetadata ==
    x_pc = "done" =>
        /\ IsFile(f_emb) /\ IsFile(f_meta) /\ IsFile(f_faiss) /\ IsFile(f_info)
        /\ Len(f_emb.data) = Len(f_meta.data)
        /\ f_info.data.n_vectors = Len(f_meta.data)
        /\ f_faiss.data = f_emb.data
        /\ \A i \in 1..Len(f_meta.data) :
              \E r \in 1..Len(x_records) :
                  /\ x_records[r].id = f_meta.data[i].pub_id
                  /\ DictHas(x_records[r].sections, f_meta.data[i].section)
                  /\ f_emb.data[i] = Embed(DescribedText(x_records[r], f_meta.data[i]))

C1_Witness ==
    /\ x_pc = "done"
    /\ Len(f_emb.data) > BATCH_SIZE_EMB
    /\ Len(f_emb.data) % BATCH_SIZE_EMB # 0

\* the four artifacts are all absent, or all present and describing the same
\* chunk sequence with the same count
MatchedSet ==
    \/ f_emb = Absent /\ f_meta = Absent /\ f_faiss = Absent /\ f_info = Absent
    \/ /\ IsFile(f_emb) /\ IsFile(f_meta) /\ IsFile(f_faiss) /\ IsFile(f_info)
       /\ Len(f_emb.data) = Len(f_meta.data)
       /\ f_info.data.n_vectors = Len(f_meta.data)
       /\ f_faiss.data = f_emb.data
       /\ \A i \in 1..Len(f_meta.data) :
             /\ Len(f_emb.data[i].vec) = f_meta.data[i].end - f_meta.data[i].start
             /\ Slice(f_emb.data[i].vec, 0, EXCERPT_LEN) = f_meta.data[i].excerpt

\* C2: whenever no main is running (also after a main was aborted at any
\* step, and after a pass over the artifacts of an earlier pass) the stored
\* artifacts are a matched set.
C2_ArtifactsMatchedSet == Quiescent => MatchedSet

\* texts and meta of the pass are in scope
Collected ==
    x_pc \in {"embed", "save_emb", "save_meta", "write_index", "write_info", "nothing"}

\* the section contributed at least one metadata entry
Contributes(pid, key) ==
    \E i \in 1..Len(x_meta) : x_meta[i].pub_id = pid /\ x_meta[i].section = key

TrimmedLen(txt) == Len(Strip(txt))

\* C9 as stated: a section contributes chunks if and only if its trimmed
\* length exceeds 40; a section of trimmed length exactly 40 contributes none.
C9_ExceedsThreshold ==
    Collected =>
        /\ Len(x_texts) = Len(x_meta)
        /\ \A r \in 1..Len(x_records) : \A j \in 1..Len(x_records[r].sections) :
              Contributes(x_records[r].id, x_records[r].sections[j].key)
                  <=> (TrimmedLen(x_records[r].sections[j].val) > MIN_SECTION_LEN)

\* C9 amended: a section contributes chunks if and only if its trimmed length
\* is at least 40; trimmed length exactly 40 contributes, anything shorter
\* contributes no text entry and no metadata entry.
C9_AtLeastThreshold ==
    Collected =>
        /\ Len(x_texts) = Len(x_meta)
        /\ \A r \in 1..Len(x_records) : \A j \in 1..Len(x_records[r].sections) :
              Contributes(x_records[r].id, x_records[r].sections[j].key)
                  <=> (TrimmedLen(x_records[r].sections[j].val) >= MIN_SECTION_LEN)

C9_Witness ==
    /\ x_pc = "embed"
    /\ \E r \in 1..Len(x_records) : \E j, k \in 1..Len(x_records[r].sections) :
          /\ TrimmedLen(x_records[r].sections[j].val) = MIN_SECTION_LEN
          /\ Contributes(x_records[r].id, x_records[r].sections[j].key)
          /\ TrimmedLen(x_records[r].sections[k].val) = MIN_SECTION_LEN - 1
          /\ Len(x_records[r].sections[k].val) > MIN_SECTION_LEN
          /\ ~Contributes(x_records[r].id, x_records[r].sections[k].key)

\* no section of any record qualifies for chunking
ZeroChunks(records) ==
    \A r \in 1..Len(records) : \A j \in 1..Len(records[r].sections) :
        TrimmedLen(records[r].sections[j].val) < MIN_SECTION_LEN

NothingToIndex ==
    (x_pass > 0 /\ ZeroChunks(x_records)) =>
        /\ x_pc \in {"nothing", "no_records"}
        /\ x_encodes = 0

ArtifactsUntouched ==
    (x_pass' > 0 /\ ZeroChunks(x_records')) => UNCHANGED <<f_emb, f_meta, f_faiss, f_info>>

\* C10: when no section of any record qualifies, the pass of either main
\* ends as 'nothing to index': model.encode is never called and none of the
\* four artifacts is written or modified.
C10_NothingToIndex == []NothingToIndex /\ [][ArtifactsUntouched]_vars

C10_Witness ==
    /\ x_pc = "nothing"
    /\ x_entry = "rebuild"
    /\ x_records # <<>>
    /\ IsFile(f_emb) /\ IsFile(f_meta) /\ IsFile(f_faiss) /\ IsFile(f_info)

\* ------------------------------------------------------------------------
\* Properties of ingest main: ingest_all followed by the indexing pass
\* ------------------------------------------------------------------------
\* build_chunks_and_embeddings has returned: the embedding matrix and the
\* chunk metadata of this run are persisted
MetaPersisted == x_entry = "ingest" /\ x_pc \in {"write_index", "write_info", "done"}

\* metadata entry i refers to a persisted record and to one of its sections,
\* and re-slicing the persisted section text gives the embedded chunk text
Resolves(i) ==
    LET m == f_meta.data[i]
    IN  /\ m.pub_id \in DOMAIN x_pubs
        /\ DictHas(x_pubs[m.pub_id].sections, m.section)
        /\ Slice(DictGet(x_pubs[m.pub_id].sections, m.section), m.start, m.end)
               = f_emb.data[i].vec
        /\ Slice(f_emb.data[i].vec, 0, EXCERPT_LEN) = m.excerpt

\* C11: after ingest_all over any table (rows sharing an identifier and rows
\* without identifier included) followed by build_chunks_and_embeddings,
\* every persisted chunk-metadata entry names a persisted record and a
\* section of it, and the slice [start, end) of that persisted section text
\* is the chunk text that was embedded, whose first 300 characters are the
\* excerpt.
C11_ReferentialIntegrity ==
    MetaPersisted => \A i \in 1..Len(f_meta.data) : Resolves(i)

\* ------------------------------------------------------------------------
\* Properties of the PDF fallback of process_row
\* ------------------------------------------------------------------------
\* the PDF of the HTML path was downloaded and non-empty text was extracted
PdfTextAvailable ==
    /\ i_pc = "fetched" /\ i_kind = "pdf"
    /\ Truthy(i_dlres)
    /\ TruthyStr(extract_text_from_pdf_bytes(i_dlres.val))

\* the step in which process_row returns rec after the PDF text was
\* extracted: i_rec holds the sections of the HTML extraction, i_rec' the
\* record that is returned
PdfTextUsedIffNoHtmlText ==
    (PdfTextAvailable /\ i_pc' = "save") =>
        /\ (i_rec'.sections
                = <<Sec(FullTextStr, extract_text_from_pdf_bytes(i_dlres.val).val)>>)
             <=> NoSectionText(i_rec.sections)
        /\ ~NoSectionText(i_rec'.sections)
        /\ ~NoSectionText(i_rec.sections) => i_rec'.sections = i_rec.sections

\* C12: on the HTML path, once non-empty text was extracted from the linked
\* PDF, the record's sections become exactly {"full_text": <pdf text>} if and
\* only if the HTML extraction produced no section with a non-empty body; the
\* returned record never has a section mapping whose bodies are all empty,
\* and sections captured from HTML are never replaced by the PDF text.
C12_PdfTextIffNoHtmlText == [][PdfTextUsedIffNoHtmlText]_vars

====
